---- MODULE Spec2Model ----
(***************************************************************************)
(* A model of the command-line contact manager: Record and AddressBook     *)
(* (instances.py), the add_contact / change_contact workflows and the      *)
(* command handlers (handlers.py) and the dispatcher (main.py).            *)
(*                                                                         *)
(* Strings are sequences of one-character strings, so that validation is   *)
(* computed character by character.  A Python Optional is a sequence of    *)
(* zero or one elements (None == <<>>).  An AddressBook is a function from *)
(* its keys to Records; dict insertion order is read by handle_all's       *)
(* listing only and is not part of the state.                              *)
(***************************************************************************)
EXTENDS Integers, Sequences, FiniteSets, TLC

VARIABLES
    book,      \* ADDRESS_BOOK.data: key -> Record
    prev,      \* the book as it was before the last operation
    last,      \* the last operation: its inputs, return value and printed output
    added,     \* per name, the phones of the successful add_contact calls, in call order
    running    \* TRUE while main()'s input loop is still reading commands

vars == <<book, prev, last, added, running>>

----------------------------------------------------------------------------
(* Bounds *)

\* longest phone list a Record is grown to
MaxPhones == 2
\* longest argument list handed to the dispatcher
MaxArgs == 3

----------------------------------------------------------------------------
(* Strings *)

Rep(c, n) == [i \in 1..n |-> c]

Upper == {"A","B","C","D","E","F","G","H","I","J","K","L","M",
          "N","O","P","Q","R","S","T","U","V","W","X","Y","Z"}
Lower == {"a","b","c","d","e","f","g","h","i","j","k","l","m",
          "n","o","p","q","r","s","t","u","v","w","x","y","z"}
Alpha == Upper \cup Lower
UpperSeq == <<"A","B","C","D","E","F","G","H","I","J","K","L","M",
              "N","O","P","Q","R","S","T","U","V","W","X","Y","Z">>
LowerSeq == <<"a","b","c","d","e","f","g","h","i","j","k","l","m",
              "n","o","p","q","r","s","t","u","v","w","x","y","z">>
\* str.lower()
ToLower(s) ==
    [i \in 1..Len(s) |->
        IF s[i] \in Upper
        THEN LowerSeq[CHOOSE j \in 1..Len(UpperSeq) : UpperSeq[j] = s[i]]
        ELSE s[i]]
Digit == {"0","1","2","3","4","5","6","7","8","9"}

NameAl    == <<"A","l">>
NameBo    == <<"B","o">>
NameA1    == <<"A","1">>
NameEmpty == <<>>
Names     == {NameAl, NameBo, NameA1, NameEmpty}

PhoneA       == <<"+">> \o Rep("1", 7)     \* +1111111: the shortest + form
PhoneB       == <<"0">> \o Rep("2", 6)     \* 0222222: the shortest 0 form
PhonePlus6   == <<"+">> \o Rep("1", 6)     \* one digit short
PhonePlus16  == <<"+">> \o Rep("1", 16)    \* one digit long
PhoneZero5   == <<"0">> \o Rep("2", 5)     \* one digit short
PhoneNoSign  == Rep("1", 8)                \* neither + nor 0 in front
PhoneLetter  == <<"+">> \o Rep("1", 6) \o <<"a">>
Phones       == {PhoneA, PhoneB, PhonePlus6, PhonePlus16, PhoneZero5,
                 PhoneNoSign, PhoneLetter}

----------------------------------------------------------------------------
(* helpers.py: validators *)

PlusMinDigits == 7
PlusMaxDigits == 15
ZeroMinDigits == 6
ZeroMaxDigits == 14

AllIn(s, from, chars) == \A i \in from..Len(s) : s[i] \in chars

validate_name(name) == Len(name) > 0 /\ AllIn(name, 1, Alpha)

validate_phone_number(number) ==
    /\ Len(number) > 0
    /\ AllIn(number, 2, Digit)
    /\ \/ number[1] = "+" /\ Len(number) - 1 \in PlusMinDigits..PlusMaxDigits
       \/ number[1] = "0" /\ Len(number) - 1 \in ZeroMinDigits..ZeroMaxDigits

----------------------------------------------------------------------------
(* instances.py: Record *)

None == <<>>
Some(x) == <<x>>

PhoneIsSet      == "Phone number is set"
PhoneNotFound   == "Phone number not found"
PhoneIsDeleted  == "Phone number is deleted"
RecordAdded     == "Record added"
RecordDeleted   == "Record deleted"
RecordNotFound  == "Record not found"

\* Record.__init__
Record(name) == [name |-> name, phones |-> <<>>]

\* add_phone inserting at the front instead of appending
add_phone_Prepend(record, phone_number) ==
    [rec |-> [record EXCEPT !.phones = <<phone_number>> \o @], msg |-> PhoneIsSet]

\* add_phone creating the Phone without appending it
add_phone_NoAppend(record, phone_number) == [rec |-> record, msg |-> PhoneIsSet]

\* Record.add_phone: append, no validation, no dedup
add_phone(record, phone_number) ==
    [rec |-> [record EXCEPT !.phones = Append(@, phone_number)], msg |-> PhoneIsSet]

\* find_phone scanning from the second Phone on
find_phone_SkipFirst(record, phone_number) ==
    LET hits == {i \in 2..Len(record.phones) : record.phones[i] = phone_number}
    IN  IF hits = {} THEN 0 ELSE CHOOSE i \in hits : \A j \in hits : i <= j

\* find_phone returning the last match instead of the first
find_phone_Last(record, phone_number) ==
    LET hits == {i \in 1..Len(record.phones) : record.phones[i] = phone_number}
    IN  IF hits = {} THEN 0 ELSE CHOOSE i \in hits : \A j \in hits : i >= j

\* Record.find_phone: the position of the first Phone holding the number, 0 for None
find_phone(record, phone_number) ==
    LET hits == {i \in 1..Len(record.phones) : record.phones[i] = phone_number}
    IN  IF hits = {} THEN 0 ELSE CHOOSE i \in hits : \A j \in hits : i <= j

\* Record.edit_phone
edit_phone(record, old_number, new_number) ==
    LET phone == find_phone(record, old_number)
    IN  IF phone = 0
        THEN [rec |-> record, msg |-> PhoneNotFound]
        ELSE [rec |-> [record EXCEPT !.phones[phone] = new_number], msg |-> PhoneIsSet]

\* Record.remove_phone
remove_phone(record, phone_number) ==
    LET phone == find_phone(record, phone_number)
    IN  IF phone = 0
        THEN [rec |-> record, msg |-> PhoneNotFound]
        ELSE [rec |-> [record EXCEPT !.phones =
                          SubSeq(@, 1, phone - 1) \o SubSeq(@, phone + 1, Len(@))],
              msg |-> PhoneIsDeleted]

----------------------------------------------------------------------------
(* instances.py: AddressBook *)

\* self.data[key] = record
Store(data, key, record) ==
    [k \in DOMAIN data \cup {key} |-> IF k = key THEN record ELSE data[k]]

\* add_record keying the entry by the lower-cased name
add_record_LowerKey(data, record) ==
    [book |-> Store(data, ToLower(record.name), record), msg |-> RecordAdded]

\* add_record keeping an entry that is already there (a setdefault)
add_record_KeepExisting(data, record) ==
    [book |-> IF record.name \in DOMAIN data THEN data ELSE Store(data, record.name, record),
     msg |-> RecordAdded]

\* AddressBook.add_record
add_record(data, record) ==
    [book |-> Store(data, record.name, record), msg |-> RecordAdded]

\* find making up a Record for a missing name (a setdefault)
find_SetDefault(data, name) ==
    IF name \in DOMAIN data THEN Some(data[name]) ELSE Some(Record(name))

\* AddressBook.find
find(data, name) == IF name \in DOMAIN data THEN Some(data[name]) ELSE None

\* delete emptying the whole book
delete_Clear(data, name) ==
    IF name \in DOMAIN data
    THEN [book |-> <<>>, msg |-> RecordDeleted]
    ELSE [book |-> data, msg |-> RecordNotFound]

\* AddressBook.delete
delete(data, name) ==
    IF name \in DOMAIN data
    THEN [book |-> [k \in DOMAIN data \ {name} |-> data[k]], msg |-> RecordDeleted]
    ELSE [book |-> data, msg |-> RecordNotFound]

----------------------------------------------------------------------------
(* helpers.py: input_error, and the messages the handlers print *)

ErrInvalidName  == "Invalid name format. Name should contain only alphabetic characters."
ErrInvalidPhone == "Invalid phone number format."
ErrDuplicate    == "Contact already has this phone number."
ErrNotFound     == "Contact not found."

Error(text)   == [kind |-> "error", text |-> text]
Success(text) == [kind |-> "success", text |-> text]
Info(text)    == [kind |-> "info", text |-> text]

\* A call wrapped by input_error that raised ValueError(text): the message is
\* printed and the call returns None.  data is the book as the call left it.
Raised(data, text) == [book |-> data, returned |-> "None", out |-> <<Error(text)>>]

\* A call that returned value without raising.
Returned(data, value, printed) == [book |-> data, returned |-> value, out |-> printed]

----------------------------------------------------------------------------
(* handlers.py: workflows *)

add_contact(name, phone_number, address_book) ==
    IF ~validate_name(name) THEN Raised(address_book, ErrInvalidName)
    ELSE IF ~validate_phone_number(phone_number) THEN Raised(address_book, ErrInvalidPhone)
    ELSE LET record == find(address_book, name) IN
         IF record = None
         THEN LET added_phone == add_phone(Record(name), phone_number) IN
              IF added_phone.msg # PhoneIsSet
              THEN Raised(address_book, added_phone.msg)
              ELSE Returned(add_record(address_book, added_phone.rec).book, "True", <<>>)
         ELSE IF find_phone(record[1], phone_number) # 0
              THEN Raised(address_book, ErrDuplicate)
              ELSE LET added_phone == add_phone(record[1], phone_number)
                       \* record is the stored object: the append is seen through the book
                       mutated == Store(address_book, name, added_phone.rec)
                   IN  IF added_phone.msg # PhoneIsSet
                       THEN Raised(mutated, added_phone.msg)
                       ELSE Returned(mutated, "True", <<>>)

\* change_contact without its branch for a Record that has no phone yet
change_contact_EditOnly(name, new_phone_number, address_book) ==
    IF ~validate_phone_number(new_phone_number) THEN Raised(address_book, ErrInvalidPhone)
    ELSE LET record == find(address_book, name) IN
         IF record = None THEN Raised(address_book, ErrNotFound)
         ELSE IF record[1].phones = <<>> THEN Raised(address_book, PhoneNotFound)
         ELSE LET updated == edit_phone(record[1], record[1].phones[1], new_phone_number)
              IN  Returned(Store(address_book, name, updated.rec), "True", <<>>)

\* change_contact without its format check
change_contact_NoValidation(name, new_phone_number, address_book) ==
    LET record == find(address_book, name) IN
    IF record = None THEN Raised(address_book, ErrNotFound)
    ELSE IF record[1].phones = <<>>
         THEN Returned(Store(address_book, name, add_phone(record[1], new_phone_number).rec),
                       "True", <<>>)
         ELSE Returned(Store(address_book, name,
                             edit_phone(record[1], record[1].phones[1], new_phone_number).rec),
                       "True", <<>>)

change_contact(name, new_phone_number, address_book) ==
    IF ~validate_phone_number(new_phone_number) THEN Raised(address_book, ErrInvalidPhone)
    ELSE LET record == find(address_book, name) IN
         IF record = None THEN Raised(address_book, ErrNotFound)
         ELSE IF record[1].phones = <<>>
              THEN LET added_phone == add_phone(record[1], new_phone_number)
                       mutated == Store(address_book, name, added_phone.rec)
                   IN  IF added_phone.msg # PhoneIsSet
                       THEN Raised(mutated, added_phone.msg)
                       ELSE Returned(mutated, "True", <<>>)
              ELSE LET current_phone == record[1].phones[1]
                       updated == edit_phone(record[1], current_phone, new_phone_number)
                       mutated == Store(address_book, name, updated.rec)
                   IN  IF updated.msg # PhoneIsSet
                       THEN Raised(mutated, updated.msg)
                       ELSE Returned(mutated, "True", <<>>)

----------------------------------------------------------------------------
(* helpers.py: validate_args_count; handlers.py: command handlers *)

UsageAdd    == "add [name] [phone_number]"
UsageChange == "change [name] [new_phone_number]"
UsagePhone  == "phone [name]"
UsageExit   == "exit/close/bye/q"

ErrNoContacts     == "No contacts found."
ErrUnknownCommand == "Unknown command. Type 'menu' to see available options."
Greeting          == "Hello, How can I assist you today?"
Goodbye           == "Goodbye! Have a great day!"
MenuText          == "Please choose an option:"
ContactsList      == "Contacts List:"
ContactAdded      == "Contact added with phone number"
ContactUpdated    == "Contact updated with new phone number"
NoPhoneNumbers    == <<"N","o"," ","p","h","o","n","e"," ","n","u","m","b","e","r","s">>

\* validate_args_count(args, expected, usage) raises ValueError naming usage
\* unless exactly the expected number of arguments was given
validate_args_count(args, expected) == Len(args) = expected

UsageError(usage) == [kind |-> "error", text |-> "usage", usage |-> usage]

\* "; ".join(...)
RECURSIVE Join(_, _)
Join(parts, sep) ==
    IF parts = <<>> THEN <<>>
    ELSE IF Len(parts) = 1 THEN parts[1]
    ELSE parts[1] \o sep \o Join(Tail(parts), sep)

\* "; ".join(phone.value for phone in record.phones) or "No phone numbers"
PhoneNumbers(record) ==
    LET joined == Join(record.phones, <<";", " ">>)
    IN  IF joined = <<>> THEN NoPhoneNumbers ELSE joined

\* What a handler did: the book as it left it, what it printed, whether it raised
\* SystemExit, and the workflow functions it called.
Handled(data, printed, exits, calls) ==
    [book |-> data, out |-> printed, exit |-> exits, called |-> calls]

handle_hello(args, address_book) ==
    IF ~validate_args_count(args, 0)
    THEN Handled(address_book, <<UsageError("hello")>>, FALSE, <<>>)
    ELSE Handled(address_book, <<Info(Greeting)>>, FALSE, <<>>)

\* handle_add accepting any argument list of at least two arguments
handle_add_AtLeastTwo(args, address_book) ==
    IF Len(args) < 2
    THEN Handled(address_book, <<UsageError(UsageAdd)>>, FALSE, <<>>)
    ELSE LET r == add_contact(args[1], args[2], address_book) IN
         Handled(r.book,
                 r.out \o (IF r.returned = "True" THEN <<Success(ContactAdded)>> ELSE <<>>),
                 FALSE, <<"add_contact">>)

handle_add(args, address_book) ==
    IF ~validate_args_count(args, 2)
    THEN Handled(address_book, <<UsageError(UsageAdd)>>, FALSE, <<>>)
    ELSE LET r == add_contact(args[1], args[2], address_book) IN
         Handled(r.book,
                 r.out \o (IF r.returned = "True" THEN <<Success(ContactAdded)>> ELSE <<>>),
                 FALSE, <<"add_contact">>)

handle_change(args, address_book) ==
    IF ~validate_args_count(args, 2)
    THEN Handled(address_book, <<UsageError(UsageChange)>>, FALSE, <<>>)
    ELSE LET r == change_contact(args[1], args[2], address_book) IN
         Handled(r.book,
                 r.out \o (IF r.returned = "True" THEN <<Success(ContactUpdated)>> ELSE <<>>),
                 FALSE, <<"change_contact">>)

\* handle_phone storing a fresh Record for a name it does not find
handle_phone_CreatesRecord(args, address_book) ==
    IF ~validate_args_count(args, 1)
    THEN Handled(address_book, <<UsageError(UsagePhone)>>, FALSE, <<>>)
    ELSE LET data == IF args[1] \in DOMAIN address_book THEN address_book
                     ELSE Store(address_book, args[1], Record(args[1]))
         IN  Handled(data,
                     <<[kind |-> "info", text |-> "'s phone number(s): ",
                        name |-> args[1], phones |-> PhoneNumbers(data[args[1]])]>>,
                     FALSE, <<>>)

handle_phone(args, address_book) ==
    IF ~validate_args_count(args, 1)
    THEN Handled(address_book, <<UsageError(UsagePhone)>>, FALSE, <<>>)
    ELSE LET record == find(address_book, args[1]) IN
         IF record = None
         THEN Handled(address_book, <<Error(ErrNotFound)>>, FALSE, <<>>)
         ELSE Handled(address_book,
                      <<[kind |-> "info", text |-> "'s phone number(s): ",
                         name |-> args[1], phones |-> PhoneNumbers(record[1])]>>,
                      FALSE, <<>>)

\* The listing's lines are modelled as a set: one line per entry of the book.
handle_all(args, address_book) ==
    IF ~validate_args_count(args, 0)
    THEN Handled(address_book, <<UsageError("all")>>, FALSE, <<>>)
    ELSE IF DOMAIN address_book = {}
    THEN Handled(address_book, <<Error(ErrNoContacts)>>, FALSE, <<>>)
    ELSE Handled(address_book,
                 <<[kind |-> "info", text |-> ContactsList,
                    lines |-> {[name |-> k, phones |-> PhoneNumbers(address_book[k])] :
                                  k \in DOMAIN address_book}]>>,
                 FALSE, <<>>)

\* handle_exit printing the farewell without raising SystemExit
handle_exit_NoSignal(args, address_book) ==
    IF ~validate_args_count(args, 0)
    THEN Handled(address_book, <<UsageError(UsageExit)>>, FALSE, <<>>)
    ELSE Handled(address_book, <<Info(Goodbye)>>, FALSE, <<>>)

\* handle_exit leaving whatever its arguments are
handle_exit_AnyArgs(args, address_book) ==
    Handled(address_book, <<Info(Goodbye)>>, TRUE, <<>>)

handle_exit(args, address_book) ==
    IF ~validate_args_count(args, 0)
    THEN Handled(address_book, <<UsageError(UsageExit)>>, FALSE, <<>>)
    ELSE Handled(address_book, <<Info(Goodbye)>>, TRUE, <<>>)

handle_menu(args, address_book) ==
    IF ~validate_args_count(args, 0)
    THEN Handled(address_book, <<UsageError("menu")>>, FALSE, <<>>)
    ELSE Handled(address_book, <<Info(MenuText)>>, FALSE, <<>>)

----------------------------------------------------------------------------
(* main.py: the dispatcher *)

CmdHello  == <<"h","e","l","l","o">>
CmdAdd    == <<"a","d","d">>
CmdChange == <<"c","h","a","n","g","e">>
CmdPhone  == <<"p","h","o","n","e">>
CmdAll    == <<"a","l","l">>
CmdMenu   == <<"m","e","n","u">>
CmdExit   == <<"e","x","i","t">>
CmdClose  == <<"c","l","o","s","e">>
CmdBye    == <<"b","y","e">>
CmdQ      == <<"q">>

EXIT_COMMANDS == {CmdExit, CmdClose, CmdBye, CmdQ}

COMMAND_HANDLERS ==
    (CmdHello :> "handle_hello") @@ (CmdAdd :> "handle_add")
        @@ (CmdChange :> "handle_change") @@ (CmdPhone :> "handle_phone")
        @@ (CmdAll :> "handle_all") @@ (CmdMenu :> "handle_menu")

\* a lookup that takes the first keyword the token starts with
GetHandler_Prefix(command) ==
    LET hits == {k \in DOMAIN COMMAND_HANDLERS :
                    Len(k) <= Len(command) /\ SubSeq(command, 1, Len(k)) = k}
    IN  IF hits = {} THEN None ELSE Some(COMMAND_HANDLERS[CHOOSE k \in hits : TRUE])

\* a lookup that ignores letter case
GetHandler_IgnoreCase(command) ==
    IF ToLower(command) \in DOMAIN COMMAND_HANDLERS
    THEN Some(COMMAND_HANDLERS[ToLower(command)])
    ELSE None

\* COMMAND_HANDLERS.get(command)
GetHandler(command) ==
    IF command \in DOMAIN COMMAND_HANDLERS THEN Some(COMMAND_HANDLERS[command]) ELSE None

\* handler(args), the address book bound by partial()
CallHandler(handler, args, address_book) ==
    CASE handler = "handle_hello"  -> handle_hello(args, address_book)
      [] handler = "handle_add"    -> handle_add(args, address_book)
      [] handler = "handle_change" -> handle_change(args, address_book)
      [] handler = "handle_phone"  -> handle_phone(args, address_book)
      [] handler = "handle_all"    -> handle_all(args, address_book)
      [] handler = "handle_menu"   -> handle_menu(args, address_book)

_handle_command(command, args, address_book) ==
    IF command = <<>> THEN Handled(address_book, <<>>, FALSE, <<>>)
    ELSE IF command \in EXIT_COMMANDS THEN handle_exit(args, address_book)
    ELSE LET handler == GetHandler(command) IN
         IF handler # None
         THEN CallHandler(handler[1], args, address_book)
         ELSE Handled(address_book, <<Error(ErrUnknownCommand)>>, FALSE, <<>>)

----------------------------------------------------------------------------
(* Operations as steps of the state machine *)

\* No Record is grown past MaxPhones phones.
Bounded(data) == \A k \in DOMAIN data : Len(data[k].phones) <= MaxPhones

\* Records a caller can hand to add_record: Record(name) and the add_phone calls
\* made on it before it is stored.
NewRecordPhones == {<<>>, <<PhoneA>>, <<PhoneB, PhoneB>>}
NewRecordNames  == {NameAl, NameBo, NameA1}

NoLog == [n \in Names |-> <<>>]

Init ==
    /\ book = <<>>
    /\ prev = <<>>
    /\ last = [op |-> "init"]
    /\ added = NoLog
    /\ running = TRUE

AddContactStep(name, phone) ==
    LET r == add_contact(name, phone, book) IN
    /\ Bounded(r.book)
    /\ book' = r.book
    /\ prev' = book
    /\ last' = [op |-> "add_contact", name |-> name, phone |-> phone,
                returned |-> r.returned, out |-> r.out]
    /\ UNCHANGED running

AddContact(name, phone) == AddContactStep(name, phone) /\ UNCHANGED added

\* add_contact observed by a log of its successful calls
AddContactLogged(name, phone) ==
    /\ AddContactStep(name, phone)
    /\ added' = IF last'.returned = "True"
                THEN [added EXCEPT ![name] = Append(@, phone)]
                ELSE added

ChangeContact(name, phone) ==
    LET r == change_contact(name, phone, book) IN
    /\ Bounded(r.book)
    /\ book' = r.book
    /\ prev' = book
    /\ last' = [op |-> "change_contact", name |-> name, phone |-> phone,
                returned |-> r.returned, out |-> r.out]
    /\ UNCHANGED <<added, running>>

AddRecord(name, phones) ==
    LET record == [name |-> name, phones |-> phones]
        r == add_record(book, record)
    IN
    /\ Bounded(r.book)
    /\ book' = r.book
    /\ prev' = book
    /\ last' = [op |-> "add_record", record |-> record, returned |-> r.msg]
    /\ UNCHANGED <<added, running>>

Delete(name) ==
    LET r == delete(book, name) IN
    /\ book' = r.book
    /\ prev' = book
    /\ last' = [op |-> "delete", name |-> name, returned |-> r.msg]
    /\ UNCHANGED <<added, running>>

\* The workflows alone, from the empty book.
NextWorkflow ==
    \/ \E name \in Names, phone \in Phones : AddContact(name, phone)
    \/ \E name \in Names, phone \in Phones : ChangeContact(name, phone)

SpecWorkflow == Init /\ [][NextWorkflow]_vars

\* add_contact alone, from the empty book.
NextAdd == \E name \in Names, phone \in Phones : AddContactLogged(name, phone)

SpecAdd == Init /\ [][NextAdd]_vars

\* The AddressBook primitives and the workflows.
Next ==
    \/ \E name \in Names, phone \in Phones : AddContact(name, phone)
    \/ \E name \in Names, phone \in Phones : ChangeContact(name, phone)
    \/ \E name \in NewRecordNames, phones \in NewRecordPhones : AddRecord(name, phones)
    \/ \E name \in Names : Delete(name)

Spec == Init /\ [][Next]_vars

\* Numbers a caller passes to edit_phone and remove_phone: they are not validated
EditNumbers == {PhoneA, PhoneB, PhonePlus6}

\* book.find(name).edit_phone(old_number, new_number)
EditPhone(name, old_number, new_number) ==
    /\ find(book, name) # None
    /\ LET r == edit_phone(find(book, name)[1], old_number, new_number) IN
       /\ book' = Store(book, name, r.rec)
       /\ prev' = book
       /\ last' = [op |-> "edit_phone", name |-> name, old |-> old_number,
                   new |-> new_number, returned |-> r.msg]
    /\ UNCHANGED <<added, running>>

\* book.find(name).remove_phone(phone_number)
RemovePhone(name, phone_number) ==
    /\ find(book, name) # None
    /\ LET r == remove_phone(find(book, name)[1], phone_number) IN
       /\ book' = Store(book, name, r.rec)
       /\ prev' = book
       /\ last' = [op |-> "remove_phone", name |-> name, number |-> phone_number,
                   returned |-> r.msg]
    /\ UNCHANGED <<added, running>>

\* Records built by add_contact and then edited through their own methods.
NextRecord ==
    \/ \E name \in Names, phone \in Phones : AddContact(name, phone)
    \/ \E name \in Names, old \in EditNumbers, new \in EditNumbers :
           EditPhone(name, old, new)
    \/ \E name \in Names, number \in EditNumbers : RemovePhone(name, number)

SpecRecord == Init /\ [][NextRecord]_vars

\* Command tokens typed at the prompt: every keyword, and tokens that are none
CmdUpperAdd  == <<"A","D","D">>
CmdCapExit   == <<"E","x","i","t">>
CmdAdds      == <<"a","d","d","s">>
CmdEmpty     == <<>>
CommandTokens ==
    {CmdHello, CmdAdd, CmdChange, CmdPhone, CmdAll, CmdMenu} \cup EXIT_COMMANDS
        \cup {CmdUpperAdd, CmdCapExit, CmdAdds, CmdEmpty}

\* Argument lists: every list of at most two tokens, and the two-token lists
\* followed by surplus arguments, up to MaxArgs arguments in all
ArgTokens == {NameAl, NameBo, PhoneA, PhoneB}
ArgLists  ==
    UNION {[1..n -> ArgTokens] : n \in 0..2}
        \cup {a \o Rep(NameBo, n) : a \in [1..2 -> ArgTokens], n \in 1..(MaxArgs - 2)}

\* One turn of main()'s loop: a parsed line is dispatched
Dispatch(command, args) ==
    LET r == _handle_command(command, args, book) IN
    /\ running
    /\ Bounded(r.book)
    /\ book' = r.book
    /\ prev' = book
    /\ last' = [op |-> "dispatch", command |-> command, nargs |-> Len(args),
                called |-> r.called, exit |-> r.exit, out |-> r.out]
    /\ running' = ~r.exit
    /\ UNCHANGED added

NextDispatch == \E command \in CommandTokens, args \in ArgLists : Dispatch(command, args)

SpecDispatch == Init /\ [][NextDispatch]_vars

----------------------------------------------------------------------------
(* Properties *)

Holds(phones, number) == \E i \in 1..Len(phones) : phones[i] = number

\* every entry of the book under a key other than name is as it was
OthersUnchanged(name) ==
    /\ DOMAIN book \ {name} = DOMAIN prev \ {name}
    /\ \A k \in DOMAIN prev \ {name} : book[k] = prev[k]

\* C1: after any sequence of add_contact and change_contact calls from the empty
\* book, no Record holds the same phone value twice.
C1_NoDuplicatePhones ==
    \A k \in DOMAIN book :
        \A i, j \in 1..Len(book[k].phones) :
            i # j => book[k].phones[i] # book[k].phones[j]

\* C2: add_contact with a valid name and a valid phone the existing Record already
\* holds prints the duplicate-phone error, does not return True, and leaves the
\* Record and every other entry of the book as they were.
C2_DuplicateRejected ==
    ( /\ last.op = "add_contact"
      /\ validate_name(last.name) /\ validate_phone_number(last.phone)
      /\ last.name \in DOMAIN prev
      /\ Holds(prev[last.name].phones, last.phone) )
    => /\ last.returned = "None"
       /\ last.out = <<Error(ErrDuplicate)>>
       /\ book = prev

C2_Witness ==
    /\ last.op = "add_contact"
    /\ validate_name(last.name) /\ validate_phone_number(last.phone)
    /\ last.name \in DOMAIN prev
    /\ Len(prev[last.name].phones) = 2
    /\ prev[last.name].phones[1] # last.phone
    /\ prev[last.name].phones[2] = last.phone
    /\ DOMAIN prev # {last.name}

\* C3: add_contact with a valid name that has a Record and a valid phone not yet on
\* it returns True, appends the phone at the end of the Record's phones, keeps the
\* Record's name and the book's keys, and leaves all other Records as they were.
C3_AppendsToExisting ==
    ( /\ last.op = "add_contact"
      /\ validate_name(last.name) /\ validate_phone_number(last.phone)
      /\ last.name \in DOMAIN prev
      /\ ~Holds(prev[last.name].phones, last.phone) )
    => /\ last.returned = "True"
       /\ last.out = <<>>
       /\ DOMAIN book = DOMAIN prev
       /\ book[last.name].name = prev[last.name].name
       /\ book[last.name].phones = Append(prev[last.name].phones, last.phone)
       /\ OthersUnchanged(last.name)

C3_Witness ==
    /\ last.op = "add_contact"
    /\ last.returned = "True"
    /\ last.name \in DOMAIN prev
    /\ prev[last.name].phones # <<>>
    /\ ~Holds(prev[last.name].phones, last.phone)
    /\ DOMAIN prev # {last.name}

\* C4: change_contact with a valid new phone on a Record with at least one phone
\* returns True, puts the new phone at index 0, keeps the length and every phone at
\* index >= 1, and leaves all other Records as they were, also when the old first
\* phone occurs again further on.
C4_ReplacesFirstOnly ==
    ( /\ last.op = "change_contact"
      /\ validate_phone_number(last.phone)
      /\ last.name \in DOMAIN prev
      /\ prev[last.name].phones # <<>> )
    => /\ last.returned = "True"
       /\ DOMAIN book = DOMAIN prev
       /\ book[last.name].name = prev[last.name].name
       /\ Len(book[last.name].phones) = Len(prev[last.name].phones)
       /\ book[last.name].phones[1] = last.phone
       /\ \A i \in 2..Len(prev[last.name].phones) :
              book[last.name].phones[i] = prev[last.name].phones[i]
       /\ OthersUnchanged(last.name)

C4_Witness ==
    /\ last.op = "change_contact"
    /\ last.returned = "True"
    /\ last.name \in DOMAIN prev
    /\ Len(prev[last.name].phones) >= 2
    /\ prev[last.name].phones[2] = prev[last.name].phones[1]
    /\ prev[last.name].phones[1] # last.phone
    /\ DOMAIN prev # {last.name}

\* C5: change_contact with a valid new phone for a name that has no Record prints
\* the not-found error, does not return True, and leaves the whole book as it was:
\* no Record is created for the name.
C5_ChangeMissingContact ==
    ( /\ last.op = "change_contact"
      /\ validate_phone_number(last.phone)
      /\ last.name \notin DOMAIN prev )
    => /\ last.returned = "None"
       /\ last.out = <<Error(ErrNotFound)>>
       /\ book = prev
       /\ last.name \notin DOMAIN book

C5_Witness ==
    /\ last.op = "change_contact"
    /\ validate_name(last.name) /\ validate_phone_number(last.phone)
    /\ last.name \notin DOMAIN prev
    /\ DOMAIN prev # {}

\* C6: after any sequence of add_contact and change_contact calls from the empty
\* book, every key is a valid name and every stored phone a valid phone number; an
\* add_contact with an invalid name, and an add_contact or change_contact with an
\* invalid phone, prints the validation error, does not return True and leaves the
\* book as it was.
C6_OnlyValidatedData ==
    /\ \A k \in DOMAIN book :
          /\ validate_name(k)
          /\ \A i \in 1..Len(book[k].phones) : validate_phone_number(book[k].phones[i])
    /\ (last.op = "add_contact" /\ ~validate_name(last.name))
          => /\ last.returned = "None"
             /\ last.out = <<Error(ErrInvalidName)>>
             /\ book = prev
    /\ (last.op \in {"add_contact", "change_contact"} /\ ~validate_phone_number(last.phone))
          => /\ last.returned = "None"
             /\ last.out \in {<<Error(ErrInvalidName)>>, <<Error(ErrInvalidPhone)>>}
             /\ (last.op = "change_contact" \/ validate_name(last.name))
                    => last.out = <<Error(ErrInvalidPhone)>>
             /\ book = prev

C6_Witness ==
    /\ last.op = "change_contact"
    /\ ~validate_phone_number(last.phone)
    /\ last.name \in DOMAIN prev
    /\ Len(prev[last.name].phones) = 2

\* C7: after any sequence of add_record, delete, add_contact and change_contact,
\* every Record of the book carries the name it is stored under.
C7_NameEqualsKey == \A k \in DOMAIN book : book[k].name = k

C7_Witness ==
    /\ last.op = "add_record"
    /\ last.record.name \in DOMAIN prev
    /\ last.record.name = NameAl
    /\ prev[NameAl] # last.record
    /\ Cardinality(DOMAIN book) >= 2

\* C8: after any sequence of add_contact calls from the empty book, a name has a
\* Record exactly when some call for it succeeded, and the Record's phones are the
\* phones of the successful calls for that name, in call order.
C8_RoundTrip ==
    \A n \in Names :
        IF added[n] = <<>>
        THEN n \notin DOMAIN book
        ELSE n \in DOMAIN book /\ book[n].phones = added[n]

C8_Witness ==
    /\ Len(added[NameAl]) = 2
    /\ added[NameAl][1] # added[NameAl][2]
    /\ added[NameBo] # <<>>
    /\ last.op = "add_contact"
    /\ last.name = NameAl
    /\ last.returned = "None"

\* C9: dispatching add or change with an argument count other than 2 prints the
\* usage error naming the command's syntax, leaves the book as it was, and calls
\* neither add_contact nor change_contact.
C9_WrongArgCount ==
    ( /\ last.op = "dispatch"
      /\ last.command \in {CmdAdd, CmdChange}
      /\ last.nargs # 2 )
    => /\ last.out = <<UsageError(IF last.command = CmdAdd THEN UsageAdd ELSE UsageChange)>>
       /\ book = prev
       /\ last.called = <<>>
       /\ running

C9_Witness ==
    /\ last.op = "dispatch"
    /\ last.command = CmdAdd
    /\ last.nargs = 3
    /\ DOMAIN prev # {}

\* C10: dispatching a non-empty token that is neither a handler keyword nor an exit
\* keyword prints the unknown-command error, leaves the book as it was for every
\* argument list, and leaves the loop running.
C10_UnknownCommand ==
    ( /\ last.op = "dispatch"
      /\ last.command # <<>>
      /\ last.command \notin {CmdHello, CmdAdd, CmdChange, CmdPhone, CmdAll, CmdMenu}
      /\ last.command \notin {CmdExit, CmdClose, CmdBye, CmdQ} )
    => /\ last.out = <<Error(ErrUnknownCommand)>>
       /\ book = prev
       /\ last.called = <<>>
       /\ ~last.exit
       /\ running

C10_Witness ==
    /\ last.op = "dispatch"
    /\ last.command = CmdUpperAdd
    /\ last.nargs = 2
    /\ DOMAIN prev # {}
    /\ running

\* C11: each of exit, close, bye and q dispatched with no argument prints the
\* farewell and signals termination, the book being left as it was; once the
\* loop has stopped no further command is processed, so nothing changes again.
C11_ExitKeyword ==
    ( /\ last.op = "dispatch"
      /\ last.command \in {CmdExit, CmdClose, CmdBye, CmdQ}
      /\ last.nargs = 0 )
    => /\ last.out = <<Info(Goodbye)>>
       /\ last.exit
       /\ last.called = <<>>
       /\ book = prev
       /\ ~running

C11_ExitTerminates ==
    /\ []C11_ExitKeyword
    /\ [][~running => UNCHANGED vars]_vars

C11_Witness ==
    /\ last.op = "dispatch"
    /\ last.command = CmdBye
    /\ last.nargs = 0
    /\ ~running
    /\ Cardinality(DOMAIN book) = 2

IsError(message) == message.kind = "error"

\* C12: a command that ends in an error message (usage, validation, not found,
\* conflict, unknown command; an exit keyword given arguments prints the usage
\* error and no farewell) leaves the loop running and able to take the next
\* command; the loop has stopped only after an exit keyword with no argument.
C12_NoErrorIsFatal ==
    /\ ( /\ last.op = "dispatch"
         /\ \E i \in 1..Len(last.out) : IsError(last.out[i]) )
       => running /\ ~last.exit /\ ENABLED NextDispatch
    /\ ( /\ last.op = "dispatch"
         /\ last.command \in EXIT_COMMANDS
         /\ last.nargs > 0 )
       => last.out = <<UsageError(UsageExit)>> /\ running
    /\ ~running
       => /\ last.op = "dispatch"
          /\ last.command \in EXIT_COMMANDS
          /\ last.nargs = 0

C12_Witness ==
    /\ last.op = "dispatch"
    /\ last.command = CmdQ
    /\ last.nargs = 1
    /\ running
    /\ DOMAIN book # {}

\* C13: after delete(name), find(name) is None; delete returns the deleted status
\* exactly when name was a key and the not-found status otherwise; every entry
\* under another key is as it was, and deleting an absent name changes nothing.
C13_Delete ==
    last.op = "delete"
    => /\ find(book, last.name) = None
       /\ last.returned = IF last.name \in DOMAIN prev THEN RecordDeleted ELSE RecordNotFound
       /\ OthersUnchanged(last.name)
       /\ last.name \notin DOMAIN prev => book = prev

C13_Witness ==
    /\ last.op = "delete"
    /\ last.name \in DOMAIN prev
    /\ prev[last.name].phones # <<>>
    /\ Cardinality(DOMAIN book) = 2

\* C14: add_record returns its success status and overwrites: find(name) is then
\* the new Record with the new Record's phones only, the number of entries is
\* unchanged when the name was a key already, entries under other keys are as they
\* were, and adding the same Record once more gives the same book.
C14_AddRecordOverwrites ==
    last.op = "add_record"
    => /\ last.returned = RecordAdded
       /\ find(book, last.record.name) = Some(last.record)
       /\ book[last.record.name].phones = last.record.phones
       /\ last.record.name \in DOMAIN prev
              => Cardinality(DOMAIN book) = Cardinality(DOMAIN prev)
       /\ OthersUnchanged(last.record.name)
       /\ add_record(book, last.record).book = book

C14_Witness ==
    /\ last.op = "add_record"
    /\ last.record.name \in DOMAIN prev
    /\ Len(prev[last.record.name].phones) = 2
    /\ prev[last.record.name].phones[1] # prev[last.record.name].phones[2]
    /\ last.record.phones = <<PhoneB, PhoneB>>
    /\ Cardinality(DOMAIN prev) >= 2

\* C15: change_contact with a valid new phone on a Record that has no phone
\* returns True and makes the Record's phones exactly the new phone; the Record's
\* name, the keys and all other Records are as they were.
C15_ChangeOnEmptyRecord ==
    ( /\ last.op = "change_contact"
      /\ validate_phone_number(last.phone)
      /\ last.name \in DOMAIN prev
      /\ prev[last.name].phones = <<>> )
    => /\ last.returned = "True"
       /\ last.out = <<>>
       /\ DOMAIN book = DOMAIN prev
       /\ book[last.name] = [prev[last.name] EXCEPT !.phones = <<last.phone>>]
       /\ OthersUnchanged(last.name)

C15_Witness ==
    /\ last.op = "change_contact"
    /\ last.returned = "True"
    /\ last.name \in DOMAIN prev
    /\ prev[last.name].phones = <<>>
    /\ \E k \in DOMAIN prev : k # last.name /\ prev[k].phones # <<>>

Keywords == {CmdHello, CmdAdd, CmdChange, CmdPhone, CmdAll, CmdMenu,
             CmdExit, CmdClose, CmdBye, CmdQ}

\* keyword is a proper prefix of token
ProperPrefix(keyword, token) ==
    Len(keyword) < Len(token) /\ SubSeq(token, 1, Len(keyword)) = keyword

\* C16: a token that is no keyword but equals one up to letter case, or is one
\* followed by more characters, is handled as unknown: the unknown-command error,
\* the book as it was, no workflow called, the loop still running.
C16_ExactCaseSensitiveMatch ==
    ( /\ last.op = "dispatch"
      /\ last.command \notin Keywords
      /\ \/ ToLower(last.command) \in Keywords
         \/ \E k \in Keywords : ProperPrefix(k, last.command) )
    => /\ last.out = <<Error(ErrUnknownCommand)>>
       /\ book = prev
       /\ last.called = <<>>
       /\ ~last.exit
       /\ running

C16_Witness ==
    /\ last.op = "dispatch"
    /\ last.command = CmdAdds
    /\ last.nargs = 2
    /\ last.out = <<Error(ErrUnknownCommand)>>
    /\ Cardinality(DOMAIN book) = 1

\* the position of the first entry of phones that equals number
FirstMatch(phones, number) ==
    CHOOSE i \in 1..Len(phones) :
        phones[i] = number /\ \A j \in 1..(i - 1) : phones[j] # number

\* C17: edit_phone and remove_phone with a number the Record does not hold return
\* the not-found status and change nothing; with a number it holds, remove_phone
\* takes out the first match only, the rest keeping their order, and edit_phone
\* overwrites the first match only, the length staying the same.
C17_EditAndRemove ==
    /\ ( /\ last.op = "edit_phone"
         /\ ~Holds(prev[last.name].phones, last.old) )
       => last.returned = PhoneNotFound /\ book = prev
    /\ ( /\ last.op = "remove_phone"
         /\ ~Holds(prev[last.name].phones, last.number) )
       => last.returned = PhoneNotFound /\ book = prev
    /\ ( /\ last.op = "edit_phone"
         /\ Holds(prev[last.name].phones, last.old) )
       => LET old == prev[last.name].phones
              new == book[last.name].phones
              at  == FirstMatch(old, last.old)
          IN  /\ last.returned = PhoneIsSet
              /\ Len(new) = Len(old)
              /\ new[at] = last.new
              /\ \A i \in 1..Len(old) : i # at => new[i] = old[i]
              /\ book[last.name].name = prev[last.name].name
              /\ OthersUnchanged(last.name)
    /\ ( /\ last.op = "remove_phone"
         /\ Holds(prev[last.name].phones, last.number) )
       => LET old == prev[last.name].phones
              new == book[last.name].phones
              at  == FirstMatch(old, last.number)
          IN  /\ last.returned = PhoneIsDeleted
              /\ Len(new) = Len(old) - 1
              /\ \A i \in 1..(at - 1) : new[i] = old[i]
              /\ \A i \in at..Len(new) : new[i] = old[i + 1]
              /\ book[last.name].name = prev[last.name].name
              /\ OthersUnchanged(last.name)

C17_Witness ==
    /\ last.op = "remove_phone"
    /\ Len(prev[last.name].phones) = 2
    /\ prev[last.name].phones[1] = last.number
    /\ prev[last.name].phones[2] = last.number
    /\ DOMAIN prev # {last.name}

\* C18: through dispatched commands alone, every stored Record has at least one
\* phone and no name leaves the book; so "No phone numbers" is never printed,
\* change never meets a Record without phones, and all with no argument does not
\* print the no-contacts error once the book has an entry.
C18_DispatchKeepsPhones ==
    /\ \A k \in DOMAIN book : book[k].phones # <<>>
    /\ \A k \in DOMAIN prev : prev[k].phones # <<>>
    /\ DOMAIN prev \subseteq DOMAIN book
    /\ last.op = "dispatch"
       => /\ \A i \in 1..Len(last.out) :
                 /\ (last.command = CmdPhone /\ last.out[i].kind = "info")
                        => last.out[i].phones # NoPhoneNumbers
                 /\ (last.command = CmdAll /\ last.out[i].kind = "info")
                        => \A line \in last.out[i].lines : line.phones # NoPhoneNumbers
          /\ (last.command = CmdAll /\ last.nargs = 0 /\ DOMAIN prev # {})
                 => last.out # <<Error(ErrNoContacts)>>

C18_Witness ==
    /\ last.op = "dispatch"
    /\ last.command = CmdAll
    /\ last.nargs = 0
    /\ Cardinality(DOMAIN prev) = 2
    /\ \E k \in DOMAIN prev : Len(prev[k].phones) = 2

\* C19: hello, phone, all and menu leave the book as it was for every argument
\* list and every book, whether they succeed or fail, and call no workflow; a
\* dispatched command that changes the book is add or change.
C19_QueriesReadOnly ==
    last.op = "dispatch"
    => /\ last.command \in {CmdHello, CmdPhone, CmdAll, CmdMenu}
              => book = prev /\ last.called = <<>> /\ running
       /\ book # prev => last.command \in {CmdAdd, CmdChange}

C19_Witness ==
    /\ last.op = "dispatch"
    /\ last.command = CmdPhone
    /\ last.nargs = 1
    /\ last.out = <<Error(ErrNotFound)>>
    /\ DOMAIN prev # {}

====
